---- MODULE Spec2Model ----
(***************************************************************************)
(* Model of the znc-logviewer plugin (src/logviewer.py): the module entry  *)
(* points OnLoad / OnModCommand, the command dispatcher, the four command  *)
(* handlers and the log path / log file layer, together with the part of   *)
(* the file system the handlers read.                                      *)
(*                                                                         *)
(* Text is modelled as a sequence of strings.  User supplied text (command *)
(* lines, tokens, file names, file lines, regex patterns) is one character *)
(* per element, so that split(), lower(), replace(), sorted() and the      *)
(* regex search are computed character by character.  Fixed message text   *)
(* of the program appears as whole chunks.                                 *)
(***************************************************************************)
EXTENDS Integers, Sequences, FiniteSets, TLC

(***************************************************************************)
(* Bounds of the model.                                                    *)
(***************************************************************************)
\* longest log file, in lines
MaxLines == 2

(***************************************************************************)
(* Characters and strings.                                                 *)
(***************************************************************************)
\* code points 35..64, in code point order
Symbols ==
  << "#", "$", "%", "&", "'", "(", ")", "*", "+", ",", "-", ".", "/",
     "0", "1", "2", "3", "4", "5", "6", "7", "8", "9",
     ":", ";", "<", "=", ">", "?", "@" >>

\* code points 65..90
UpperLetters ==
  << "A", "B", "C", "D", "E", "F", "G", "H", "I", "J", "K", "L", "M",
     "N", "O", "P", "Q", "R", "S", "T", "U", "V", "W", "X", "Y", "Z" >>

\* code points 97..122
LowerLetters ==
  << "a", "b", "c", "d", "e", "f", "g", "h", "i", "j", "k", "l", "m",
     "n", "o", "p", "q", "r", "s", "t", "u", "v", "w", "x", "y", "z" >>

IndexIn(s, c) == CHOOSE i \in 1..Len(s) : s[i] = c

SymbolSet == { Symbols[i] : i \in 1..Len(Symbols) }
UpperSet == { UpperLetters[i] : i \in 1..Len(UpperLetters) }
LowerSet == { LowerLetters[i] : i \in 1..Len(LowerLetters) }
CharSet == SymbolSet \cup UpperSet \cup LowerSet

\* ord(c)
Ord == [ c \in CharSet |->
           IF c \in SymbolSet THEN 34 + IndexIn(Symbols, c)
           ELSE IF c \in UpperSet THEN 64 + IndexIn(UpperLetters, c)
           ELSE 96 + IndexIn(LowerLetters, c) ]

\* str.lower() on one character
LowerChar == [ c \in CharSet |->
                 IF c \in UpperSet THEN LowerLetters[IndexIn(UpperLetters, c)] ELSE c ]

\* str.lower()
Lower(s) == [ i \in 1..Len(s) |-> LowerChar[s[i]] ]

\* s < t in the order Python compares str (code point by code point)
RECURSIVE StrLess(_, _)
StrLess(s, t) ==
  IF t = << >> THEN FALSE
  ELSE IF s = << >> THEN TRUE
  ELSE IF s[1] = t[1] THEN StrLess(Tail(s), Tail(t))
  ELSE Ord[s[1]] < Ord[t[1]]

StrLeq(s, t) == s = t \/ StrLess(s, t)

\* does t occur in s starting at index i
OccursAt(s, t, i) ==
  /\ i + Len(t) - 1 <= Len(s)
  /\ \A k \in 1..Len(t) : s[i + k - 1] = t[k]

\* str.replace(old, ""): every non-overlapping occurrence, left to right
RECURSIVE RemoveAll(_, _)
RemoveAll(s, old) ==
  IF s = << >> THEN << >>
  ELSE IF OccursAt(s, old, 1)
       THEN RemoveAll(SubSeq(s, Len(old) + 1, Len(s)), old)
       ELSE << s[1] >> \o RemoveAll(Tail(s), old)

\* str.split(): tokens separated by runs of whitespace, no empty token
RECURSIVE SplitFrom(_, _)
SplitFrom(s, tok) ==
  IF s = << >> THEN (IF tok = << >> THEN << >> ELSE << tok >>)
  ELSE IF s[1] = " "
       THEN (IF tok = << >> THEN << >> ELSE << tok >>) \o SplitFrom(Tail(s), << >>)
       ELSE SplitFrom(Tail(s), Append(tok, s[1]))

Split(s) == SplitFrom(s, << >>)

\* " ".join(tokens)
RECURSIVE Join(_)
Join(toks) ==
  IF toks = << >> THEN << >>
  ELSE IF Len(toks) = 1 THEN toks[1]
  ELSE toks[1] \o << " " >> \o Join(Tail(toks))

\* sorted(list): insertion sort, ascending, duplicates kept
RECURSIVE InsertSorted(_, _)
InsertSorted(x, s) ==
  IF s = << >> THEN << x >>
  ELSE IF StrLeq(x, s[1]) THEN << x >> \o s
  ELSE << s[1] >> \o InsertSorted(x, Tail(s))

RECURSIVE Sorted(_)
Sorted(s) == IF s = << >> THEN << >> ELSE InsertSorted(s[1], Sorted(Tail(s)))

SeqRange(s) == { s[i] : i \in 1..Len(s) }

\* the orders in which a directory listing can enumerate a set of entries
Enumerations(S) ==
  { q \in [1..Cardinality(S) -> S] : \A x \in S : \E i \in DOMAIN q : q[i] = x }

(***************************************************************************)
(* The command handlers (AbstractLogViewerCommand and its four subclasses) *)
(***************************************************************************)
HelpWord == << "h", "e", "l", "p" >>

\* LogCatCommand.__init__
LogCatCommand ==
  [ command     |-> << "L", "o", "g", "C", "a", "t" >>,
    argsStr     |-> << "<window> <date>" >>,
    description |-> << "View log file for window and date (current network)." >>,
    kind        |-> "cat" ]

\* LogGrepCommand.__init__
LogGrepCommand ==
  [ command     |-> << "L", "o", "g", "G", "r", "e", "p" >>,
    argsStr     |-> << "<window> <date> <regex>" >>,
    description |-> << "Grep log file for window and date (current network) with regex." >>,
    kind        |-> "grep" ]

\* LogDatesCommand.__init__
LogDatesCommand ==
  [ command     |-> << "L", "o", "g", "D", "a", "t", "e", "s" >>,
    argsStr     |-> << "<window>" >>,
    description |-> << "List all available dates for window." >>,
    kind        |-> "dates" ]

\* LogWindowsCommand.__init__
LogWindowsCommand ==
  [ command     |-> << "L", "o", "g", "W", "i", "n", "d", "o", "w", "s" >>,
    argsStr     |-> << >>,
    description |-> << "List all available windows." >>,
    kind        |-> "windows" ]

\* the AddCommand calls of logviewer.OnLoad, in order
LoadedCommands ==
  << LogCatCommand, LogGrepCommand, LogDatesCommand, LogWindowsCommand >>

\* AbstractLogViewerCommand.GetName
GetName(cmd) == cmd.command

\* AbstractLogViewerCommand.PrintErr: the line it hands to Print
ErrLine(text) == << "ERROR: " >> \o text

\* AbstractLogViewerCommand.Describe
Describe(cmd) == GetName(cmd) \o << " - " >> \o cmd.description

\* AbstractLogViewerCommand.Help: the two lines it prints
Help(cmd) == << GetName(cmd) \o << " " >> \o cmd.argsStr, cmd.description >>

(***************************************************************************)
(* IrcLogPathBuilder.  The host supplies the user and the network name.    *)
(***************************************************************************)
UserName == << "u" >>
NetworkName == << "n" >>
LogExt == << ".", "l", "o", "g" >>

\* IrcLogPathBuilder.__getBasePath
GetBasePath == << "~/.znc/users/" >> \o UserName \o << "/moddata/log/" >> \o NetworkName

\* IrcLogPathBuilder.GetLogPath
GetLogPath(window, date) == GetBasePath \o << "/" >> \o window \o << "/" >> \o date \o LogExt

\* fnmatch of a directory entry against "*.log"; glob never lets "*" match
\* an entry whose name starts with a dot
MatchesStarLog(fn) ==
  /\ Len(fn) >= Len(LogExt)
  /\ OccursAt(fn, LogExt, Len(fn) - Len(LogExt) + 1)
  /\ fn[1] # "."

\* fnmatch of a directory entry against "*"
MatchesStar(fn) == fn # << >> /\ fn[1] # "."

\* the date IrcLogPathBuilder.GetLogsDates derives from one file name
DateOf(fn) == RemoveAll(fn, LogExt)

(***************************************************************************)
(* Regular expressions (re.compile, Pattern.search) for patterns made of   *)
(* literal characters, ".", a postfix "*" and "(".                         *)
(***************************************************************************)
\* str(n) for a one digit position
Digit(n) == Symbols[14 + n]

ReError(text, pos) == [ ok |-> FALSE, items |-> << >>, err |-> << text, Digit(pos) >> ]

\* sre_parse: i is the index being read, prev tells whether the last item
\* can take a repeat, opens holds the positions of the unclosed "("
RECURSIVE ReParse(_, _, _, _, _)
ReParse(p, i, prev, items, opens) ==
  IF i > Len(p)
  THEN IF opens # << >>
       THEN ReError("missing ), unterminated subpattern at position ", opens[Len(opens)])
       ELSE [ ok |-> TRUE, items |-> items, err |-> << >> ]
  ELSE IF p[i] = "*"
       THEN IF prev = "none" THEN ReError("nothing to repeat at position ", i - 1)
            ELSE IF prev = "star" THEN ReError("multiple repeat at position ", i - 1)
            ELSE ReParse(p, i + 1, "star",
                         [ items EXCEPT ![Len(items)].star = TRUE ], opens)
  ELSE IF p[i] = "("
       THEN ReParse(p, i + 1, "none", items, Append(opens, i - 1))
  ELSE ReParse(p, i + 1, "atom", Append(items, [ ch |-> p[i], star |-> FALSE ]), opens)

\* re.compile
ReCompile(p) == ReParse(p, 1, "none", << >>, << >>)

\* one pattern character against one character of the line
AtomMatches(ch, c) == IF ch = "." THEN c # "\n" ELSE c = ch

\* does the item list match a prefix of s
RECURSIVE MatchHere(_, _)
MatchHere(items, s) ==
  IF items = << >> THEN TRUE
  ELSE IF items[1].star
       THEN \E k \in 0..Len(s) :
              /\ \A j \in 1..k : AtomMatches(items[1].ch, s[j])
              /\ MatchHere(Tail(items), SubSeq(s, k + 1, Len(s)))
       ELSE /\ s # << >>
            /\ AtomMatches(items[1].ch, s[1])
            /\ MatchHere(Tail(items), Tail(s))

\* Pattern.search(line) is not None
ReSearch(items, s) == \E i \in 1..(Len(s) + 1) : MatchHere(items, SubSeq(s, i, Len(s)))

(***************************************************************************)
(* The command dispatcher's registry.                                      *)
(***************************************************************************)
\* the keys of the __commands dict, in insertion order
Keys(reg) == [ i \in 1..Len(reg) |-> reg[i].key ]

HasKey(reg, k) == \E i \in 1..Len(reg) : reg[i].key = k

Lookup(reg, k) == reg[CHOOSE i \in 1..Len(reg) : reg[i].key = k].cmd

\* AddCommand without the check for a registered verb: the later handler
\* replaces the earlier one
AddCommandOverwrite(reg, command) ==
  [ raised |-> FALSE, exc |-> << >>,
    reg |-> IF HasKey(reg, Lower(GetName(command)))
            THEN [ i \in 1..Len(reg) |->
                     IF reg[i].key = Lower(GetName(command))
                     THEN [ key |-> reg[i].key, cmd |-> command ]
                     ELSE reg[i] ]
            ELSE Append(reg, [ key |-> Lower(GetName(command)), cmd |-> command ]) ]

\* LogViewerCommandDispatcher.AddCommand
AddCommand(reg, command) ==
  IF HasKey(reg, Lower(GetName(command)))
  THEN [ raised |-> TRUE, exc |-> << "command already registered" >>, reg |-> reg ]
  ELSE [ raised |-> FALSE, exc |-> << >>,
         reg |-> Append(reg, [ key |-> Lower(GetName(command)), cmd |-> command ]) ]

\* the AddCommand calls of OnLoad up to the first that raises
RECURSIVE AddCommands(_, _)
AddCommands(reg, cmds) ==
  IF cmds = << >> THEN [ raised |-> FALSE, exc |-> << >>, reg |-> reg ]
  ELSE LET r == AddCommand(reg, cmds[1])
       IN  IF r.raised THEN r ELSE AddCommands(r.reg, Tail(cmds))

(***************************************************************************)
(* The inputs of the model: what the log root may hold and the command     *)
(* lines the host may deliver.                                             *)
(***************************************************************************)
WinC == << "#", "c" >>
\* a window that never has a directory
WinAbsent == << "#", "b" >>
WinHidden == << ".", "h" >>
PlainF == << "f" >>

\* names of the entries that may appear directly under the log root, and
\* what kind of entry each may be
RootNames == { WinC, HelpWord, WinHidden, PlainF }
KindsOf(n) == IF n = PlainF THEN { "file" } ELSE { "dir" }

\* the window directories in which the model puts files
LogDirs == { WinC, HelpWord }

FileD == << "d" >> \o LogExt
FileE == << "e" >> \o LogExt
FileDLog == << "d" >> \o LogExt \o LogExt
FileTxt == << "d", ".", "t", "x", "t" >>
FileNames == { FileD, FileE, FileDLog, FileTxt }

\* the files a window directory may hold
FilesOf(w) == IF w = WinC THEN FileNames ELSE { FileD }

\* the lines a log file is made of, each with its line end
LogLines == { << "a", "b", "\n" >>, << "b", "\n" >> }

AllContents == UNION { [1..n -> LogLines] : n \in 0..MaxLines }

\* only the file of date "d" is given text
ContentsOf(w, f) ==
  IF f # FileD THEN { << >> }
  ELSE IF w = WinC THEN AllContents
  ELSE { << << "b", "\n" >> >> }

\* the search patterns
Patterns ==
  { << "b" >>, << "b", "*" >>, << ".", "b" >>, << "(" >>, << "*" >>, << "a", "*", "*" >> }

TokLower(cmd) == Lower(GetName(cmd))
TokUpper(cmd) ==
  [ i \in 1..Len(GetName(cmd)) |->
      IF GetName(cmd)[i] \in LowerSet
      THEN UpperLetters[IndexIn(LowerLetters, GetName(cmd)[i])]
      ELSE GetName(cmd)[i] ]
Spellings(cmd) == { GetName(cmd), TokLower(cmd), TokUpper(cmd) }

HelpMixed == << "H", "e", "L", "p" >>
DateD == << "d" >>
DateE == << "e" >>

CatArgs ==
  { << w, d >> : w \in { WinC, HelpWord }, d \in { DateD, DateE } }
    \cup { << >>, << WinC >>, << HelpWord >>, << HelpMixed, DateD >>, << WinC, DateD, DateE >> }

GrepArgs ==
  { << WinC, DateD, r >> : r \in Patterns }
    \cup { << HelpWord, DateD, r >> : r \in { << "b", "*" >>, << "(" >> } }
    \cup { << WinC, DateE, << "b" >> >>, << >>, << WinC, DateD >>, << HelpWord >> }

DatesArgs == { << WinC >>, << WinAbsent >>, << HelpWord >>, << >>, << WinC, DateD >> }

WindowsArgs == { << >>, << HelpWord >>, << WinC >> }

ArgsOf(cmd) ==
  IF cmd.kind = "cat" THEN CatArgs
  ELSE IF cmd.kind = "grep" THEN GrepArgs
  ELSE IF cmd.kind = "dates" THEN DatesArgs
  ELSE WindowsArgs

\* the command lines the host delivers
CommandLines ==
  UNION { { Join(<< v >> \o a) : v \in Spellings(LoadedCommands[i]),
                                   a \in ArgsOf(LoadedCommands[i]) } :
          i \in 1..Len(LoadedCommands) }
    \cup { Join(<< v >> \o a) : v \in { HelpWord, HelpMixed, << "f", "o", "o" >> },
                                 a \in { << >>, << WinC >> } }
    \cup { << >>, << " " >>, << " ", " " >>,
           << " " >> \o GetName(LogWindowsCommand) \o << " ", " " >>,
           GetName(LogDatesCommand) \o << " ", " " >> \o WinC }

\* the handler lists a build of the plugin may register in OnLoad: the
\* program's own, and lists in which two verbs differ only in case
Registrations ==
  { LoadedCommands,
    Append(LoadedCommands, [ LogCatCommand EXCEPT !.command = TokLower(LogCatCommand) ]),
    << LogCatCommand, [ LogGrepCommand EXCEPT !.command = TokUpper(LogCatCommand) ] >> }

(***************************************************************************)
(* State.                                                                  *)
(***************************************************************************)
VARIABLES
  registrations,  \* the handlers OnLoad registers, in order
  loadState,      \* "init", "loaded" (OnLoad returned True), "failed" (False)
  message,        \* message.s as left by OnLoad
  commands,       \* LogViewerCommandDispatcher.__commands
  root,           \* the entries directly under the log root: name -> kind
  logs,           \* the files in the window directories: <<window, file>> -> lines
  pc,             \* where the plugin is: "idle", "opening", "reading", "done"
  line,           \* the command line being handled
  call,           \* the branch Dispatch took and the handler call it made
  out,            \* the lines handed to PutModule for this command line
  log,            \* the IrcLog of the running LogCat / LogGrep
  handles,        \* number of open file handles
  result          \* how OnModCommand ended: "none", "true", "raised"

vars == << registrations, loadState, message, commands, root, logs,
           pc, line, call, out, log, handles, result >>

NoCall == [ branch |-> "none", cmd |-> << >>, args |-> << >>, none |-> TRUE ]

NoLog == [ kind |-> "none", window |-> << >>, date |-> << >>, path |-> << >>,
           pattern |-> << >>, regex |-> << >>, existed |-> FALSE,
           file |-> FALSE, lines |-> << >>, idx |-> 0, error |-> "none" ]

(***************************************************************************)
(* The file system as the plugin sees it.                                  *)
(***************************************************************************)
PathOf(w, f) == GetBasePath \o << "/" >> \o w \o << "/" >> \o f

\* os.path.isfile
IsFile(path) == \E k \in DOMAIN logs : PathOf(k[1], k[2]) = path

\* the lines open(path) would read
FileAt(path) == logs[CHOOSE k \in DOMAIN logs : PathOf(k[1], k[2]) = path]

\* os.path.isdir of an entry under the log root
IsDir(n) == n \in DOMAIN root /\ root[n] = "dir"

\* IrcLog.Exists
Exists(window, date) == IsFile(GetLogPath(window, date))

\* the entries of a window directory / of the log root
FilesIn(window) == { f \in FileNames : << window, f >> \in DOMAIN logs }
RootEntries == { n \in RootNames : root[n] # "none" }

\* the subsequence of listing made of the entries that satisfy keep
RECURSIVE Filter(_, _)
Filter(listing, keep) ==
  IF listing = << >> THEN << >>
  ELSE (IF listing[1] \in keep THEN << listing[1] >> ELSE << >>)
         \o Filter(Tail(listing), keep)

\* IrcLogPathBuilder.GetLogsDates; listing is the order in which the
\* directory enumerates its entries
GetLogsDates(window, listing) ==
  LET matched == Filter(listing, { f \in FilesIn(window) : MatchesStarLog(f) })
  IN  [ i \in 1..Len(matched) |-> DateOf(matched[i]) ]

\* IrcLogPathBuilder.GetWinList
GetWinList(listing) ==
  Filter(listing, { n \in RootEntries : MatchesStar(n) /\ IsDir(n) })

(***************************************************************************)
(* The handlers.  Each yields the lines it prints, where the plugin is     *)
(* afterwards and the IrcLog it built.                                     *)
(***************************************************************************)
\* IrcLog.__init__
IrcLog(kind, window, date, pattern) ==
  [ NoLog EXCEPT !.kind = kind, !.window = window, !.date = date,
                 !.path = GetLogPath(window, date), !.pattern = pattern,
                 !.existed = Exists(window, date) ]

NotFoundLine(window, date) ==
  ErrLine(<< "No such log file for " >> \o window \o << " on " >> \o date
            \o << " (" >> \o GetLogPath(window, date) \o << ")" >>)

CatHeader(path) == << "Content of " >> \o path \o << ":" >>

GrepHeader(path, pattern) ==
  << "Content of " >> \o path \o << " matching " >> \o pattern \o << ":" >>

Usage(cmd) == [ out |-> Help(cmd), pc |-> "done", log |-> NoLog ]

\* __showLog without the Exists check
ShowLogUnchecked(window, date) ==
  LET aIrcLog == IrcLog("cat", window, date, << >>)
  IN  [ out |-> << CatHeader(aIrcLog.path) >>, pc |-> "opening", log |-> aIrcLog ]

\* LogCatCommand.__showLog up to the with statement
ShowLog(window, date) ==
  LET aIrcLog == IrcLog("cat", window, date, << >>)
  IN  IF ~aIrcLog.existed
      THEN [ out |-> << NotFoundLine(window, date) >>, pc |-> "done", log |-> aIrcLog ]
      ELSE [ out |-> << CatHeader(aIrcLog.path) >>, pc |-> "opening", log |-> aIrcLog ]

\* __grepLog with re.compile outside the try block's reach: a pattern that
\* does not compile is searched for as the empty pattern
GrepLogSwallow(window, date, pattern) ==
  LET aIrcLog == IrcLog("grep", window, date, pattern)
      aRegex == ReCompile(pattern)
  IN  IF ~aIrcLog.existed
      THEN [ out |-> << NotFoundLine(window, date) >>, pc |-> "done", log |-> aIrcLog ]
      ELSE [ out |-> << GrepHeader(aIrcLog.path, pattern) >>,
             pc |-> "opening", log |-> [ aIrcLog EXCEPT !.regex = aRegex.items ] ]

\* LogGrepCommand.__grepLog up to the with statement
GrepLog(window, date, pattern) ==
  LET aIrcLog == IrcLog("grep", window, date, pattern)
      aRegex == ReCompile(pattern)
  IN  IF ~aIrcLog.existed
      THEN [ out |-> << NotFoundLine(window, date) >>, pc |-> "done", log |-> aIrcLog ]
      ELSE IF ~aRegex.ok
      THEN [ out |-> << GrepHeader(aIrcLog.path, pattern), ErrLine(aRegex.err) >>,
             pc |-> "done", log |-> [ aIrcLog EXCEPT !.error = "compile" ] ]
      ELSE [ out |-> << GrepHeader(aIrcLog.path, pattern) >>,
             pc |-> "opening", log |-> [ aIrcLog EXCEPT !.regex = aRegex.items ] ]

\* LogDatesCommand._DoPerform once the argument count is right
ListDates(aWindow, listing) ==
  LET aDates == GetLogsDates(aWindow, listing)
  IN  [ out |-> IF Len(aDates) > 0
                THEN << << "List of all available log date for window " >>
                          \o aWindow \o << ":" >> >> \o Sorted(aDates)
                ELSE << ErrLine(<< "No such logs for window " >> \o aWindow) >>,
        pc |-> "done", log |-> NoLog ]

\* LogWindowsCommand._DoPerform printing the windows as enumerated
ListWindowsUnsorted(listing) ==
  LET aWins == GetWinList(listing)
  IN  [ out |-> IF Len(aWins) > 0
                THEN << << "List of all available windows:" >> >> \o aWins
                ELSE << ErrLine(<< "No such windows logs" >>) >>,
        pc |-> "done", log |-> NoLog ]

\* LogWindowsCommand._DoPerform once the argument count is right
ListWindows(listing) ==
  LET aWins == GetWinList(listing)
  IN  [ out |-> IF Len(aWins) > 0
                THEN << << "List of all available windows:" >> >> \o Sorted(aWins)
                ELSE << ErrLine(<< "No such windows logs" >>) >>,
        pc |-> "done", log |-> NoLog ]

\* _DoPerform of the four commands
DoPerform(cmd, args, fileListing, rootListing) ==
  IF cmd.kind = "cat"
  THEN IF Len(args) # 2 THEN Usage(cmd) ELSE ShowLog(args[1], args[2])
  ELSE IF cmd.kind = "grep"
  THEN IF Len(args) # 3 THEN Usage(cmd) ELSE GrepLog(args[1], args[2], args[3])
  ELSE IF cmd.kind = "dates"
  THEN IF Len(args) # 1 THEN Usage(cmd) ELSE ListDates(args[1], fileListing)
  ELSE IF Len(args) # 0 THEN Usage(cmd) ELSE ListWindows(rootListing)

\* AbstractLogViewerCommand.Perform; args is None when args.none
Perform(cmd, args, fileListing, rootListing) ==
  IF ~args.none /\ Len(args.list) > 0 /\ Lower(args.list[1]) = HelpWord
  THEN Usage(cmd)
  ELSE DoPerform(cmd, IF args.none THEN << >> ELSE args.list, fileListing, rootListing)

\* the help listing of Dispatch
Banner ==
  << << "View and search logs." >>, << "---------------------" >>,
     << "Available commands: " >> >>
    \o [ i \in 1..Len(commands) |-> Describe(commands[i].cmd) ]
    \o << << "Use \"<command> help\" for usage info." >> >>

CommandNotFound(verb) ==
  << << "Command not found: " >> \o verb,
     << "Use Help for list of available commands" >> >>

\* Dispatch looking the verb up as typed
DispatchCaseSensitive(l, fileListing, rootListing) ==
  LET args == Split(l)
  IN  IF args = << >>
      THEN [ raised |-> TRUE, out |-> << >>, pc |-> "done", log |-> NoLog,
             call |-> [ NoCall EXCEPT !.branch = "raise" ] ]
      ELSE IF HasKey(commands, args[1])
      THEN LET cmdArgs == IF Len(args) > 1 THEN [ none |-> FALSE, list |-> Tail(args) ]
                          ELSE [ none |-> TRUE, list |-> << >> ]
               cmd == Lookup(commands, args[1])
               r == Perform(cmd, cmdArgs, fileListing, rootListing)
           IN  [ raised |-> FALSE, out |-> r.out, pc |-> r.pc, log |-> r.log,
                 call |-> [ branch |-> "handler", cmd |-> GetName(cmd),
                            args |-> cmdArgs.list, none |-> cmdArgs.none ] ]
      ELSE IF Lower(args[1]) = HelpWord
      THEN [ raised |-> FALSE, out |-> Banner, pc |-> "done", log |-> NoLog,
             call |-> [ NoCall EXCEPT !.branch = "banner" ] ]
      ELSE [ raised |-> FALSE, out |-> CommandNotFound(args[1]), pc |-> "done",
             log |-> NoLog, call |-> [ NoCall EXCEPT !.branch = "notfound" ] ]

\* LogViewerCommandDispatcher.Dispatch
Dispatch(l, fileListing, rootListing) ==
  LET args == Split(l)
  IN  IF args = << >>
      THEN [ raised |-> TRUE, out |-> << >>, pc |-> "done", log |-> NoLog,
             call |-> [ NoCall EXCEPT !.branch = "raise" ] ]
      ELSE IF HasKey(commands, Lower(args[1]))
      THEN LET cmdArgs == IF Len(args) > 1 THEN [ none |-> FALSE, list |-> Tail(args) ]
                          ELSE [ none |-> TRUE, list |-> << >> ]
               cmd == Lookup(commands, Lower(args[1]))
               r == Perform(cmd, cmdArgs, fileListing, rootListing)
           IN  [ raised |-> FALSE, out |-> r.out, pc |-> r.pc, log |-> r.log,
                 call |-> [ branch |-> "handler", cmd |-> GetName(cmd),
                            args |-> cmdArgs.list, none |-> cmdArgs.none ] ]
      ELSE IF Lower(args[1]) = HelpWord
      THEN [ raised |-> FALSE, out |-> Banner, pc |-> "done", log |-> NoLog,
             call |-> [ NoCall EXCEPT !.branch = "banner" ] ]
      ELSE [ raised |-> FALSE, out |-> CommandNotFound(args[1]), pc |-> "done",
             log |-> NoLog, call |-> [ NoCall EXCEPT !.branch = "notfound" ] ]

(***************************************************************************)
(* Initial state and actions.                                              *)
(***************************************************************************)
Init ==
  /\ registrations \in Registrations
  /\ loadState = "init"
  /\ message = << >>
  /\ commands = << >>
  /\ root = [ n \in RootNames |-> "none" ]
  /\ logs = << >>
  /\ pc = "idle"
  /\ line = << >>
  /\ call = NoCall
  /\ out = << >>
  /\ log = NoLog
  /\ handles = 0
  /\ result = "none"

\* logviewer.OnLoad
OnLoad ==
  /\ loadState = "init"
  /\ LET r == AddCommands(<< >>, registrations)
     IN  /\ commands' = r.reg
         /\ loadState' = IF r.raised THEN "failed" ELSE "loaded"
         /\ message' = IF r.raised THEN << "Error: " >> \o r.exc ELSE << >>
  /\ UNCHANGED << registrations, root, logs, pc, line, call, out, log, handles, result >>

\* the kind of the handler a command line selects
KindOfLine(l) ==
  LET args == Split(l)
  IN  IF args # << >> /\ HasKey(commands, Lower(args[1]))
      THEN Lookup(commands, Lower(args[1])).kind
      ELSE "none"

\* the orders in which the directory a command line lists can enumerate
\* its entries (no order for a command line that lists nothing)
FileListings(l) ==
  IF KindOfLine(l) = "dates" /\ Len(Split(l)) = 2
  THEN Enumerations(FilesIn(Split(l)[2]))
  ELSE { << >> }

RootListings(l) ==
  IF KindOfLine(l) = "windows" /\ Len(Split(l)) = 1
  THEN Enumerations(RootEntries)
  ELSE { << >> }

\* logviewer.OnModCommand, up to the point where a log file is opened.
\* The host delivers command lines only to a module whose OnLoad succeeded.
OnModCommand(l) ==
  /\ loadState = "loaded"
  /\ pc = "idle"
  /\ \E fl \in FileListings(l), rl \in RootListings(l) :
       LET d == Dispatch(l, fl, rl)
       IN  /\ line' = l
           /\ call' = d.call
           /\ out' = d.out
           /\ log' = d.log
           /\ pc' = d.pc
           /\ result' = IF d.raised THEN "raised"
                        ELSE IF d.pc = "done" THEN "true" ELSE "none"
  /\ UNCHANGED << registrations, loadState, message, commands, root, logs, handles >>

\* __exit__ that does not close the file
IrcLogExitLeak(lg, h) == h

\* IrcLog.__exit__: the number of open handles it leaves
IrcLogExit(lg, h) == IF lg.file THEN h - 1 ELSE h

\* the except clause of __showLog / __grepLog
Except(text) ==
  /\ out' = Append(out, ErrLine(text))
  /\ pc' = "done"
  /\ result' = "true"

\* IrcLog.__enter__: the open succeeds
Enter ==
  /\ pc = "opening"
  /\ IsFile(log.path)
  /\ log' = [ log EXCEPT !.file = TRUE, !.lines = FileAt(log.path), !.idx = 1 ]
  /\ handles' = handles + 1
  /\ pc' = "reading"
  /\ UNCHANGED << registrations, loadState, message, commands, root, logs,
                  line, call, out, result >>

\* the open raises and no except clause catches it
EnterRaiseUncaught ==
  /\ pc = "opening"
  /\ pc' = "done"
  /\ result' = "raised"
  /\ log' = [ log EXCEPT !.error = "open" ]
  /\ UNCHANGED << registrations, loadState, message, commands, root, logs,
                  line, call, out, handles >>

\* IrcLog.__enter__: the open raises, the with block is not entered
EnterRaise ==
  /\ pc = "opening"
  /\ \E errno \in (IF IsFile(log.path) THEN { "[Errno 13] Permission denied: '" }
                   ELSE { "[Errno 2] No such file or directory: '" }) :
       Except(<< errno >> \o log.path \o << "'" >>)
  /\ log' = [ log EXCEPT !.error = "open" ]
  /\ UNCHANGED << registrations, loadState, message, commands, root, logs,
                  line, call, handles >>

\* the loop body with re.match (match at the start of the line) for search
ReadLineMatch ==
  /\ pc = "reading"
  /\ log.idx <= Len(log.lines)
  /\ out' = IF log.kind = "cat" \/ MatchHere(log.regex, log.lines[log.idx])
            THEN Append(out, log.lines[log.idx])
            ELSE out
  /\ log' = [ log EXCEPT !.idx = log.idx + 1 ]
  /\ UNCHANGED << registrations, loadState, message, commands, root, logs,
                  pc, line, call, handles, result >>

\* one pass of "for line in f"
ReadLine ==
  /\ pc = "reading"
  /\ log.idx <= Len(log.lines)
  /\ out' = IF log.kind = "cat" \/ ReSearch(log.regex, log.lines[log.idx])
            THEN Append(out, log.lines[log.idx])
            ELSE out
  /\ log' = [ log EXCEPT !.idx = log.idx + 1 ]
  /\ UNCHANGED << registrations, loadState, message, commands, root, logs,
                  pc, line, call, handles, result >>

\* the read or the Print of a line raises inside the with block
ReadRaise ==
  /\ pc = "reading"
  /\ handles' = IrcLogExit(log, handles)
  /\ Except(<< "[Errno 5] Input/output error" >>)
  /\ log' = [ log EXCEPT !.error = "read" ]
  /\ UNCHANGED << registrations, loadState, message, commands, root, logs, line, call >>

\* the loop reaches the end of the file and the with block is left
ReadEnd ==
  /\ pc = "reading"
  /\ log.idx > Len(log.lines)
  /\ handles' = IrcLogExit(log, handles)
  /\ pc' = "done"
  /\ result' = "true"
  /\ UNCHANGED << registrations, loadState, message, commands, root, logs,
                  line, call, out, log >>

\* control is back in the host, which may deliver the next command line
Return ==
  /\ pc = "done"
  /\ pc' = "idle"
  /\ line' = << >>
  /\ call' = NoCall
  /\ out' = << >>
  /\ log' = NoLog
  /\ result' = "none"
  /\ UNCHANGED << registrations, loadState, message, commands, root, logs, handles >>

(***************************************************************************)
(* The external logger and other processes changing the log root.          *)
(***************************************************************************)
MakeEntry(n) ==
  /\ pc = "idle"
  /\ root[n] = "none"
  /\ \E k \in KindsOf(n) : root' = [ root EXCEPT ![n] = k ]
  /\ UNCHANGED << registrations, loadState, message, commands, logs,
                  pc, line, call, out, log, handles, result >>

RemoveEntry(n) ==
  /\ pc = "idle"
  /\ root[n] # "none"
  /\ FilesIn(n) = {}
  /\ root' = [ root EXCEPT ![n] = "none" ]
  /\ UNCHANGED << registrations, loadState, message, commands, logs,
                  pc, line, call, out, log, handles, result >>

WriteLog(w, f) ==
  /\ pc = "idle"
  /\ root[w] = "dir"
  /\ f \in FilesOf(w)
  /\ << w, f >> \notin DOMAIN logs
  /\ \E c \in ContentsOf(w, f) :
       logs' = [ k \in DOMAIN logs \cup { << w, f >> } |->
                   IF k = << w, f >> THEN c ELSE logs[k] ]
  /\ UNCHANGED << registrations, loadState, message, commands, root,
                  pc, line, call, out, log, handles, result >>

\* a log file is removed, also between the Exists check of a running
\* command and its open
DeleteLog(w, f) ==
  /\ << w, f >> \in DOMAIN logs
  /\ pc = "idle" \/ (pc = "opening" /\ log.path = PathOf(w, f))
  /\ logs' = [ k \in DOMAIN logs \ { << w, f >> } |-> logs[k] ]
  /\ UNCHANGED << registrations, loadState, message, commands, root,
                  pc, line, call, out, log, handles, result >>

Next ==
  \/ OnLoad
  \/ \E l \in CommandLines : OnModCommand(l)
  \/ Enter
  \/ EnterRaise
  \/ ReadLine
  \/ ReadRaise
  \/ ReadEnd
  \/ Return
  \/ \E n \in RootNames : MakeEntry(n)
  \/ \E n \in RootNames : RemoveEntry(n)
  \/ \E w \in LogDirs, f \in FileNames : WriteLog(w, f)
  \/ \E w \in LogDirs, f \in FileNames : DeleteLog(w, f)

Spec == Init /\ [][Next]_vars

(***************************************************************************)
(* Properties.                                                             *)
(***************************************************************************)
\* the tokens of the command line being handled
Toks == Split(line)

VerbIs(cmd) == Toks # << >> /\ Lower(Toks[1]) = Lower(GetName(cmd))

\* a LogCat line with a window and a date, a LogGrep line with a window, a
\* date and a pattern, a LogDates line with a window, a bare LogWindows line
CatLine == VerbIs(LogCatCommand) /\ Len(Toks) = 3
GrepLine == VerbIs(LogGrepCommand) /\ Len(Toks) = 4
DatesLine == VerbIs(LogDatesCommand) /\ Len(Toks) = 2
WindowsLine == VerbIs(LogWindowsCommand) /\ Len(Toks) = 1

\* the window token is the help keyword
HelpWindow == Lower(Toks[2]) = HelpWord

\* the log file named by the line was there when the line was delivered
\* (between delivery and now a file can only have been removed)
ExistedAtCommand == Exists(Toks[2], Toks[3]) \/ log.existed

IsErrLine(t) == t # << >> /\ t[1] = "ERROR: "
ErrCount == Cardinality({ i \in DOMAIN out : IsErrLine(out[i]) })
ContentCount == Cardinality({ i \in DOMAIN out : out[i] \in LogLines })

\* the lines in which the compiled pattern is found, in file order
RECURSIVE MatchingLines(_, _)
MatchingLines(items, lines) ==
  IF lines = << >> THEN << >>
  ELSE (IF ReSearch(items, lines[1]) THEN << lines[1] >> ELSE << >>)
         \o MatchingLines(items, Tail(lines))

IsPrefix(s, t) == Len(s) <= Len(t) /\ \A i \in 1..Len(s) : s[i] = t[i]

Ascending(s) == \A i \in 1..Len(s), j \in 1..Len(s) : i < j => StrLeq(s[i], s[j])

\* C1 as stated: for every (window, date) whose log file does not exist when
\* the command is given, LogCat and LogGrep (whatever the pattern) print
\* exactly one line, the not-found message naming window, date and path.
C1_AsStated ==
  (pc = "done" /\ (CatLine \/ GrepLine) /\ ~ExistedAtCommand)
    => out = << NotFoundLine(Toks[2], Toks[3]) >>

\* C1 amended: the same for every window token that is not the word "help"
\* in any letter case; for such a token Perform prints the usage text.
C1_NotFoundOnly ==
  (pc = "done" /\ (CatLine \/ GrepLine) /\ ~ExistedAtCommand /\ ~HelpWindow)
    => out = << NotFoundLine(Toks[2], Toks[3]) >>

C1_Witness ==
  /\ pc = "done" /\ GrepLine /\ ~ExistedAtCommand /\ ~HelpWindow
  /\ ~ReCompile(Toks[4]).ok
  /\ root[Toks[2]] = "dir"
  /\ out = << NotFoundLine(Toks[2], Toks[3]) >>

\* C2 as stated: every command line the host delivers, the empty and the
\* blank line included, is dispatched without an exception and OnModCommand
\* returns True.
C2_NeverRaises == pc = "done" => result = "true"

\* C3 as stated: LogGrep on an existing log file with a pattern that does
\* not compile prints a single error line and no line of the file.
C3_AsStated ==
  (pc = "done" /\ GrepLine /\ ExistedAtCommand /\ ~ReCompile(Toks[4]).ok)
    => (ErrCount = 1 /\ ContentCount = 0)

\* C3 amended: when the window token is not the word "help", LogGrep on an
\* existing log file with a pattern that does not compile prints its header
\* line and then a single error line carrying the compile error, nothing
\* else; the file is not opened.
C3_CompileError ==
  (pc = "done" /\ GrepLine /\ ExistedAtCommand /\ ~ReCompile(Toks[4]).ok /\ ~HelpWindow)
    => /\ out = << GrepHeader(GetLogPath(Toks[2], Toks[3]), Toks[4]),
                   ErrLine(ReCompile(Toks[4]).err) >>
       /\ ErrCount = 1 /\ ContentCount = 0
       /\ ~log.file /\ handles = 0

C3_Witness ==
  /\ pc = "done" /\ GrepLine /\ ExistedAtCommand /\ ~HelpWindow
  /\ Toks[4] = << "a", "*", "*" >>
  /\ Len(FileAt(GetLogPath(Toks[2], Toks[3]))) = MaxLines
  /\ out[2] = ErrLine(<< "multiple repeat at position ", "2" >>)

\* two of the handlers OnLoad registers have verbs equal without regard to case
ClashingVerbs ==
  \E i \in 1..Len(registrations), j \in 1..Len(registrations) :
    i < j /\ Lower(GetName(registrations[i])) = Lower(GetName(registrations[j]))

C5_CaseInsensitive ==
  \A i \in 1..Len(commands) :
    (pc # "idle" /\ Toks # << >> /\ Lower(Toks[1]) = Lower(GetName(commands[i].cmd)))
      => /\ call.branch = "handler"
         /\ call.cmd = GetName(commands[i].cmd)
         /\ call.args = Tail(Toks)

C5_Witness ==
  /\ pc = "opening" /\ GrepLine
  /\ Toks[1] # GetName(LogGrepCommand)
  /\ Toks[1] # Lower(GetName(LogGrepCommand))
  /\ call.branch = "handler" /\ call.cmd = GetName(LogGrepCommand)
  /\ call.args = << Toks[2], Toks[3], Toks[4] >>

\* a file name that ends in the .log extension, and the name without it
EndsInLog(f) == Len(f) >= Len(LogExt) /\ OccursAt(f, LogExt, Len(f) - Len(LogExt) + 1)
Stem(f) == SubSeq(f, 1, Len(f) - Len(LogExt))

\* the date stems of the *.log files in a window directory
DateStems(window) == { Stem(f) : f \in { g \in FilesIn(window) : EndsInLog(g) } }

\* C6 as stated, for window tokens other than the word "help": LogDates
\* lists, in ascending order, exactly the date stems (file name minus the
\* trailing .log) of the *.log files of the window directory, and prints
\* only the not-found message when there is none.
C6_DatesAreStems ==
  (pc = "done" /\ DatesLine /\ ~HelpWindow)
    => IF DateStems(Toks[2]) = {}
       THEN out = << ErrLine(<< "No such logs for window " >> \o Toks[2]) >>
       ELSE /\ Len(out) > 1
            /\ out[1] = << "List of all available log date for window " >>
                          \o Toks[2] \o << ":" >>
            /\ Ascending(Tail(out))
            /\ SeqRange(Tail(out)) = DateStems(Toks[2])

\* the directories under the log root
Directories == { n \in RootNames : root[n] = "dir" }

\* what LogWindows prints for a set of windows
ListsExactly(wins) ==
  IF wins = {}
  THEN out = << ErrLine(<< "No such windows logs" >>) >>
  ELSE /\ Len(out) = 1 + Cardinality(wins)
       /\ out[1] = << "List of all available windows:" >>
       /\ Ascending(Tail(out))
       /\ SeqRange(Tail(out)) = wins

\* C7 as stated: LogWindows lists, in ascending order, exactly the
\* directories directly under the log root, never a plain file, and prints
\* only the "No such windows logs" line when there is no directory.
C7_AsStated == (pc = "done" /\ WindowsLine) => ListsExactly(Directories)

\* C7 amended: the same for the directories whose name does not begin with
\* a dot; a directory whose name begins with a dot is never listed.
C7_VisibleDirectories ==
  (pc = "done" /\ WindowsLine) => ListsExactly({ n \in Directories : n[1] # "." })

C7_Witness ==
  /\ pc = "done" /\ WindowsLine
  /\ Directories = { WinC, HelpWord, WinHidden }
  /\ root[PlainF] = "file"
  /\ Tail(out) = << WinC, HelpWord >>

\* the lines of the log file a LogGrep line names
GrepFile ==
  IF log.file THEN log.lines
  ELSE IF IsFile(GetLogPath(Toks[2], Toks[3])) THEN FileAt(GetLogPath(Toks[2], Toks[3]))
  ELSE << >>

GrepOutput(lines) ==
  << GrepHeader(GetLogPath(Toks[2], Toks[3]), Toks[4]) >>
    \o MatchingLines(ReCompile(Toks[4]).items, lines)

\* C8 as stated: for an existing log file and a pattern that compiles,
\* LogGrep prints its header and then exactly the lines of the file in which
\* the pattern is found somewhere, once each, in file order.
C8_AsStated ==
  (pc = "done" /\ GrepLine /\ ExistedAtCommand /\ ReCompile(Toks[4]).ok)
    => out = GrepOutput(GrepFile)

\* C8 amended: the same provided that the window token is not the word
\* "help" and that the file is opened and read to its end without an error;
\* while the file is read what has been printed after the header is a
\* prefix of those lines, and when the open or a read fails it is such a
\* prefix followed by one error line.
C8_MatchingLines ==
  (GrepLine /\ ExistedAtCommand /\ ReCompile(Toks[4]).ok /\ ~HelpWindow)
    => /\ (pc = "done" /\ log.error = "none") => out = GrepOutput(log.lines)
       /\ (pc = "reading" \/ (pc = "done" /\ log.error \in { "open", "read" }))
            => IsPrefix(SubSeq(out, 1, Len(out) - (IF pc = "done" THEN 1 ELSE 0)),
                        GrepOutput(log.lines))
       /\ (pc = "done" /\ log.error \in { "open", "read" })
            => (IsErrLine(out[Len(out)]) /\ ErrCount = 1)

C8_Witness ==
  /\ pc = "done" /\ GrepLine /\ ~HelpWindow /\ log.error = "none"
  /\ Toks[4] = << ".", "b" >>
  /\ log.lines = << << "b", "\n" >>, << "a", "b", "\n" >> >>
  /\ out = << GrepHeader(log.path, log.pattern), << "a", "b", "\n" >> >>

\* a LogCat / LogGrep whose file was there at the Exists check and gone at the open
RemovedBeforeOpen ==
  pc = "done" /\ log.existed /\ log.error = "open" /\ ~IsFile(log.path)

\* C9: when the log file is removed between the Exists check and the open
\* of a LogCat or LogGrep command, no exception leaves the handler,
\* OnModCommand returns True, no file stays open, and the user gets no line
\* of content: after the header the one further line is the error line that
\* says there is no such file.
C9_RemovedBeforeOpen ==
  RemovedBeforeOpen
    => /\ result = "true"
       /\ handles = 0
       /\ ContentCount = 0
       /\ out = << IF log.kind = "cat" THEN CatHeader(log.path)
                   ELSE GrepHeader(log.path, log.pattern),
                   ErrLine(<< "[Errno 2] No such file or directory: '" >>
                             \o log.path \o << "'" >>) >>

C9_Witness ==
  /\ RemovedBeforeOpen
  /\ log.kind = "grep"
  /\ FilesIn(log.window) # {}
  /\ result = "true"

\* C10: no log file handle is open when a handler has returned: a handle is
\* open only while the with block is being executed, and it is closed when
\* the block is left at the end of the file and when a read raises; a
\* failed open leaves none.
C10_HandlesReleased ==
  /\ handles = (IF pc = "reading" THEN 1 ELSE 0)
  /\ pc \in { "idle", "done" } => handles = 0

C10_Witness ==
  /\ pc = "done"
  /\ log.error = "read"
  /\ log.file
  /\ log.idx = 2 /\ Len(log.lines) = 2
  /\ handles = 0

====
